---- MODULE Spec2Model ----
(***************************************************************************)
(* Model of the OpenWeatherCache sample client (NonCachingClient) of       *)
(* src/rust/src/non_caching_client.rs: one client instance, several        *)
(* concurrent callers of the async method query, each suspended at the     *)
(* single await of the remote call.                                        *)
(***************************************************************************)
EXTENDS Integers, Sequences, FiniteSets, TLC

(* ---------------- program constants ---------------- *)
TWO_HOURS == 7200
ONE_DAY == 86400
MINUTE == 60
FIVE_MINUTES == 300
ONE_HOUR == 3600
SAMPLE_DATA_START == 1659722400
\* spacing of the provider's samples (lib.rs: "5 day forecast with 3 hour granularity")
THREE_HOURS == 10800

(* ---------------- bounds ---------------- *)
\* cap on the number of remote calls issued in one behaviour
MaxCalls == 2
\* number of observations of a full provider payload
NumObs == 10
\* cap on the number of remote calls the cache issues in one behaviour
MaxFetches == 2

\* the concurrent callers of query on the one client
Tasks == {"caller_a", "caller_b"}

(* ---------------- values ---------------- *)
\* Option<f64>
None == <<>>
Some(v) == <<v>>

\* Result<_>
Ok(v) == [ok |-> TRUE, val |-> v, err |-> ""]
Err(e) == [ok |-> FALSE, val |-> <<>>, err |-> e]

\* the errors the code can produce, named by their message
SendError == "reqwest: send failed"
JsonError == "error from get_remote_data_five_day_forecast"
EmptyListError == "returned data list is empty"
StartGreaterError == "start is greater than end"
RangeSmallerError == "returned data range is smaller than requested range"

\* APIResponseElem, reduced to the two fields query reads (dt, main.temp);
\* temperatures are in hundredths of a Kelvin
Elem(dt, temp) == [dt |-> dt, temp |-> temp]

\* temperature of the k-th sample of a forecast (29018 = 290.18 K is the
\* first value of the sample data)
SampleTemp(k) == 29018 - 37 * k + 5 * (k % 3)

\* a forecast of n samples at 3 hour spacing, the first at t0
Forecast(t0, n, shift) == [k \in 1..n |-> Elem(t0 + (k - 1) * THREE_HOURS, SampleTemp(k - 1) + shift)]

\* a payload that delivers the timestamp of its second sample twice, the
\* second time with another temperature
Redelivered(list) ==
    [k \in 1..(Len(list) + 1) |->
        IF k <= 2 THEN list[k]
        ELSE IF k = 3 THEN Elem(list[2].dt, list[2].temp + 50)
        ELSE list[k - 1]]

\* what the provider can answer to one call
Payloads ==
    { <<>>,
      Forecast(SAMPLE_DATA_START, 1, 0),
      Forecast(SAMPLE_DATA_START, NumObs, 0),
      Forecast(SAMPLE_DATA_START, NumObs, 100),
      Redelivered(Forecast(SAMPLE_DATA_START, NumObs, 0)),
      Forecast(SAMPLE_DATA_START + THREE_HOURS, NumObs, 0) }

RemoteOutcomes == { Err(SendError), Err(JsonError) } \cup { Ok(p) : p \in Payloads }

\* the (start, end) pairs the callers pass, in seconds
Ranges ==
    { <<SAMPLE_DATA_START, SAMPLE_DATA_START + 25 * ONE_HOUR>>,
      <<SAMPLE_DATA_START, SAMPLE_DATA_START + 3 * ONE_HOUR>>,
      <<SAMPLE_DATA_START, SAMPLE_DATA_START + ONE_HOUR>>,
      <<SAMPLE_DATA_START, SAMPLE_DATA_START>>,
      <<SAMPLE_DATA_START + 1, SAMPLE_DATA_START>>,
      <<SAMPLE_DATA_START, SAMPLE_DATA_START + TWO_HOURS - 1>>,
      <<SAMPLE_DATA_START, SAMPLE_DATA_START + TWO_HOURS>>,
      <<SAMPLE_DATA_START, SAMPLE_DATA_START + ONE_DAY - 1>>,
      <<SAMPLE_DATA_START, SAMPLE_DATA_START + ONE_DAY>>,
      <<SAMPLE_DATA_START - ONE_HOUR, SAMPLE_DATA_START + ONE_HOUR>>,
      <<SAMPLE_DATA_START + THREE_HOURS, SAMPLE_DATA_START + 2 * THREE_HOURS + 90>>,
      <<SAMPLE_DATA_START, SAMPLE_DATA_START + (NumObs - 1) * THREE_HOURS>> }

(* ---------------- state ---------------- *)
VARIABLES
    client,       \* the NonCachingClient: its fields lat, long
    pc,           \* per caller: "idle", "fetching" (suspended at the await), "done"
    start,        \* per caller: argument start of its query, seconds
    end,          \* per caller: argument end of its query, seconds
    remote_data,  \* per caller: what get_remote_data_five_day_forecast returned
    granularity,  \* per caller: the local granularity of query (0: not computed)
    returned_data_map, \* per caller: the local returned_data_map of query
    result,       \* per caller: what query returned
    calls,        \* number of remote calls issued so far
    prior,        \* per caller, history: while it is suspended, the answer an
                  \* earlier successful query with the same arguments gave
    store,        \* RangeCache: ObservationStore, timestamp |-> temperature
    covered       \* RangeCache: CoveredIntervals, a sequence of <<a, b>> for [a, b)

vars == <<client, pc, start, end, remote_data, granularity, returned_data_map, result,
          calls, prior, store, covered>>

(* ---------------- query, after the await ---------------- *)

\* variant of MapInsert that keeps the value a key already has
MapInsert_KeepFirst(m, k, v) ==
    [x \in (DOMAIN m) \cup {k} |-> IF x \in DOMAIN m THEN m[x] ELSE v]

\* BTreeMap::insert: insert or overwrite
MapInsert(m, k, v) == [x \in (DOMAIN m) \cup {k} |-> IF x = k THEN v ELSE m[x]]

\* for e in remote_data.list { returned_data_map.insert(e.dt, e.main.temp) }
RECURSIVE InsertAll(_, _, _)
InsertAll(m, list, n) ==
    IF n > Len(list) THEN m
    ELSE InsertAll(MapInsert(m, list[n].dt, list[n].temp), list, n + 1)

EmptyMap == [x \in {} |-> 0]

\* variant of RangeNextBack with the bound included, range(..=i)
RangeNextBack_Inclusive(m, i) ==
    LET below == { k \in DOMAIN m : k <= i }
    IN  IF below = {} THEN None
        ELSE Some(m[CHOOSE k \in below : \A j \in below : j <= k])

\* variant of RangeNextBack that takes the data point closest to i on either
\* side
RangeNextBack_Nearest(m, i) ==
    LET Dist(k) == IF k < i THEN i - k ELSE k - i
    IN  IF DOMAIN m = {} THEN None
        ELSE Some(m[CHOOSE k \in DOMAIN m : \A j \in DOMAIN m : Dist(k) <= Dist(j)])

\* returned_data_map.range(..i).next_back()
RangeNextBack(m, i) ==
    LET below == { k \in DOMAIN m : k < i }
    IN  IF below = {} THEN None
        ELSE Some(m[CHOOSE k \in below : \A j \in below : j <= k])

\* variant of Granularity with closed thresholds
Granularity_Closed(requested_range) ==
    IF requested_range <= TWO_HOURS THEN MINUTE
    ELSE IF requested_range <= ONE_DAY THEN FIVE_MINUTES
    ELSE ONE_HOUR

\* granularity selection
Granularity(requested_range) ==
    IF requested_range < TWO_HOURS THEN MINUTE
    ELSE IF requested_range < ONE_DAY THEN FIVE_MINUTES
    ELSE ONE_HOUR

\* variant of LoopIterations for a loop that tests i <= end_secs
LoopIterations_Inclusive(start_secs, end_secs, g) ==
    CHOOSE n \in 0..(end_secs - start_secs + 1) :
        /\ ~(start_secs + n * g <= end_secs)
        /\ \A k \in 0..(n - 1) : start_secs + k * g <= end_secs

\* the while loop of query, "while i < end_secs { i = i + granularity; push }":
\* the number of times its body runs. After k runs i = start_secs + k * g, so
\* the loop leaves at the first k for which i < end_secs is false.
LoopIterations(start_secs, end_secs, g) ==
    CHOOSE n \in 0..(end_secs - start_secs) :
        /\ ~(start_secs + n * g < end_secs)
        /\ \A k \in 0..(n - 1) : start_secs + k * g < end_secs

\* the vector ret the loop builds: its k-th run advances i to
\* start_secs + k * g and pushes what the map holds for that i
Resample(m, start_secs, end_secs, g) ==
    [k \in 1..LoopIterations(start_secs, end_secs, g) |->
        RangeNextBack(m, start_secs + k * g)]

\* variant of RangeContains for the closed range min_dt..=max_dt
RangeContains_Closed(min_dt, max_dt, x) == min_dt <= x /\ x <= max_dt

\* variant of RangeContains for the range ..max_dt without a lower end
RangeContains_NoLower(min_dt, max_dt, x) == x < max_dt

\* available_range.contains(x) for available_range = min_dt..max_dt
RangeContains(min_dt, max_dt, x) == min_dt <= x /\ x < max_dt

\* the local granularity at the end of query, 0 where query returns before
\* computing it
QueryGranularity(remote, s, e) ==
    IF ~remote.ok THEN 0
    ELSE IF Len(remote.val) = 0 THEN 0
    ELSE IF s >= e THEN 0
    ELSE LET min_dt == remote.val[1].dt
             max_dt == remote.val[Len(remote.val)].dt
         IN  IF ~RangeContains(min_dt, max_dt, s) \/ ~RangeContains(min_dt, max_dt, e)
             THEN 0
             ELSE Granularity(e - s)

\* the local returned_data_map at the end of query, empty where query returns
\* before filling it
QueryMap(remote, s, e) ==
    IF ~remote.ok THEN EmptyMap
    ELSE IF Len(remote.val) = 0 THEN EmptyMap
    ELSE IF s >= e THEN EmptyMap
    ELSE LET min_dt == remote.val[1].dt
             max_dt == remote.val[Len(remote.val)].dt
         IN  IF ~RangeContains(min_dt, max_dt, s) \/ ~RangeContains(min_dt, max_dt, e)
             THEN EmptyMap
             ELSE InsertAll(EmptyMap, remote.val, 1)

\* variant of QueryAfterFetch that validates start and end before it looks at
\* the answer of the remote call
QueryAfterFetch_ValidateFirst(remote, s, e) ==
    IF s > e THEN Err(StartGreaterError)
    ELSE IF s = e THEN Ok(<<>>)
    ELSE IF ~remote.ok THEN Err(remote.err)
    ELSE IF Len(remote.val) = 0 THEN Err(EmptyListError)
    ELSE LET min_dt == remote.val[1].dt
             max_dt == remote.val[Len(remote.val)].dt
         IN  IF ~RangeContains(min_dt, max_dt, s) \/ ~RangeContains(min_dt, max_dt, e)
             THEN Err(RangeSmallerError)
             ELSE Ok(Resample(InsertAll(EmptyMap, remote.val, 1), s, e, Granularity(e - s)))

\* variant of QueryAfterFetch that answers a failed remote call with an empty
\* vector
QueryAfterFetch_MaskFailure(remote, s, e) ==
    IF ~remote.ok THEN Ok(<<>>)
    ELSE IF Len(remote.val) = 0 THEN Err(EmptyListError)
    ELSE IF s > e THEN Err(StartGreaterError)
    ELSE IF s = e THEN Ok(<<>>)
    ELSE LET min_dt == remote.val[1].dt
             max_dt == remote.val[Len(remote.val)].dt
         IN  IF ~RangeContains(min_dt, max_dt, s) \/ ~RangeContains(min_dt, max_dt, e)
             THEN Err(RangeSmallerError)
             ELSE Ok(Resample(InsertAll(EmptyMap, remote.val, 1), s, e, Granularity(e - s)))

\* variant of QueryAfterFetch that takes an empty list for an empty answer
QueryAfterFetch_EmptyIsOk(remote, s, e) ==
    IF ~remote.ok THEN Err(remote.err)
    ELSE IF Len(remote.val) = 0 THEN Ok(<<>>)
    ELSE IF s > e THEN Err(StartGreaterError)
    ELSE IF s = e THEN Ok(<<>>)
    ELSE LET min_dt == remote.val[1].dt
             max_dt == remote.val[Len(remote.val)].dt
         IN  IF ~RangeContains(min_dt, max_dt, s) \/ ~RangeContains(min_dt, max_dt, e)
             THEN Err(RangeSmallerError)
             ELSE Ok(Resample(InsertAll(EmptyMap, remote.val, 1), s, e, Granularity(e - s)))

\* the body of query from the return of the remote call on
QueryAfterFetch(remote, s, e) ==
    IF ~remote.ok THEN Err(remote.err)
    ELSE IF Len(remote.val) = 0 THEN Err(EmptyListError)
    ELSE IF s > e THEN Err(StartGreaterError)
    ELSE IF s = e THEN Ok(<<>>)
    ELSE LET min_dt == remote.val[1].dt
             max_dt == remote.val[Len(remote.val)].dt
         IN  IF ~RangeContains(min_dt, max_dt, s) \/ ~RangeContains(min_dt, max_dt, e)
             THEN Err(RangeSmallerError)
             ELSE Ok(Resample(InsertAll(EmptyMap, remote.val, 1), s, e, Granularity(e - s)))

\* the callers that hold the answer of a completed successful query with a
\* non-empty range that holds [s, e)
HoldersOf(s, e) ==
    { u \in Tasks : /\ pc[u] = "done" /\ result[u].ok
                    /\ start[u] < end[u] /\ start[u] <= s /\ e <= end[u] }

\* the answer of an earlier successful query(s, e), if a caller holds one
PriorAnswer(s, e) ==
    LET same == { u \in HoldersOf(s, e) : start[u] = s /\ end[u] = e }
    IN  IF same = {} THEN Err("") ELSE result[CHOOSE u \in same : TRUE]

(* ---------------- actions ---------------- *)

\* NonCachingClient::new(lat, long), coordinates in hundredths of a degree
New(lat, long) == [lat |-> lat, long |-> long]

Init ==
    /\ client \in { New(4736, -12219), New(4562, -12267) }
    /\ pc = [t \in Tasks |-> "idle"]
    /\ start = [t \in Tasks |-> 0]
    /\ end = [t \in Tasks |-> 0]
    /\ remote_data = [t \in Tasks |-> Err("")]
    /\ granularity = [t \in Tasks |-> 0]
    /\ returned_data_map = [t \in Tasks |-> EmptyMap]
    /\ result = [t \in Tasks |-> Err("")]
    /\ calls = 0
    /\ prior = [t \in Tasks |-> Err("")]
    /\ store = EmptyMap
    /\ covered = <<>>

\* a caller enters query(start, end): the first thing query does is to issue
\* the remote call and to suspend on it
Call(t) ==
    /\ pc[t] # "fetching"
    /\ calls < MaxCalls
    /\ \E r \in Ranges :
        /\ start' = [start EXCEPT ![t] = r[1]]
        /\ end' = [end EXCEPT ![t] = r[2]]
        /\ prior' = [prior EXCEPT ![t] = PriorAnswer(r[1], r[2])]
    /\ pc' = [pc EXCEPT ![t] = "fetching"]
    /\ calls' = calls + 1
    /\ remote_data' = [remote_data EXCEPT ![t] = Err("")]
    /\ granularity' = [granularity EXCEPT ![t] = 0]
    /\ returned_data_map' = [returned_data_map EXCEPT ![t] = EmptyMap]
    /\ result' = [result EXCEPT ![t] = Err("")]
    /\ UNCHANGED <<client, store, covered>>

\* the remote call of a suspended caller completes and query runs to its end
Return(t) ==
    /\ pc[t] = "fetching"
    /\ \E remote \in RemoteOutcomes :
        /\ remote_data' = [remote_data EXCEPT ![t] = remote]
        /\ granularity' = [granularity EXCEPT ![t] = QueryGranularity(remote, start[t], end[t])]
        /\ returned_data_map' =
              [returned_data_map EXCEPT ![t] = QueryMap(remote, start[t], end[t])]
        /\ result' = [result EXCEPT ![t] = QueryAfterFetch(remote, start[t], end[t])]
    /\ prior' = [prior EXCEPT ![t] = Err("")]
    /\ pc' = [pc EXCEPT ![t] = "done"]
    /\ UNCHANGED <<client, start, end, calls, store, covered>>

Next == \E t \in Tasks : Call(t) \/ Return(t)

Spec == Init /\ [][Next]_vars

(* ---------------- RangeCache: the caching implementation of query ---------------- *)

\* the windows the provider can answer with at different times, and its
\* failures
CacheOutcomes ==
    { Err(SendError), Ok(<<>>), Ok(Forecast(SAMPLE_DATA_START, 1, 0)),
      Ok(Forecast(SAMPLE_DATA_START, 3, 0)),
      Ok(Forecast(SAMPLE_DATA_START + THREE_HOURS, 3, 100)),
      Ok(Forecast(SAMPLE_DATA_START + 2 * THREE_HOURS, 3, 0)),
      Ok(Forecast(SAMPLE_DATA_START + 4 * THREE_HOURS, 2, 0)),
      Ok(Forecast(SAMPLE_DATA_START + 5 * THREE_HOURS, 3, 0)) }

\* the (start, end) pairs the callers of the cache pass
CacheRanges ==
    { <<SAMPLE_DATA_START, SAMPLE_DATA_START + ONE_HOUR>>,
      <<SAMPLE_DATA_START + 5 * ONE_HOUR, SAMPLE_DATA_START + 7 * ONE_HOUR>>,
      <<SAMPLE_DATA_START + 12 * ONE_HOUR, SAMPLE_DATA_START + 13 * ONE_HOUR>>,
      <<SAMPLE_DATA_START + 15 * ONE_HOUR, SAMPLE_DATA_START + 16 * ONE_HOUR>>,
      <<SAMPLE_DATA_START, SAMPLE_DATA_START>>,
      <<SAMPLE_DATA_START + 1, SAMPLE_DATA_START>> }

\* the intervals of cov that overlap [a, b) or are adjacent to it
Touching(cov, a, b) == { i \in 1..Len(cov) : cov[i][1] <= b /\ a <= cov[i][2] }

\* a set of intervals with distinct starts as a sequence sorted by start
SortByStart(S) ==
    [k \in 1..Cardinality(S) |->
        CHOOSE x \in S : Cardinality({ y \in S : y[1] < x[1] }) = k - 1]

\* variant of MergeInterval that merges overlapping intervals only
MergeInterval_OverlapOnly(cov, a, b) ==
    IF a >= b THEN cov
    ELSE LET touch == { i \in 1..Len(cov) : cov[i][1] < b /\ a < cov[i][2] }
             lo == CHOOSE x \in {a} \cup { cov[i][1] : i \in touch } :
                      \A y \in {a} \cup { cov[i][1] : i \in touch } : x <= y
             hi == CHOOSE x \in {b} \cup { cov[i][2] : i \in touch } :
                      \A y \in {b} \cup { cov[i][2] : i \in touch } : x >= y
         IN  SortByStart({ cov[i] : i \in (1..Len(cov)) \ touch } \cup { <<lo, hi>> })

\* union of CoveredIntervals with the fetched span [a, b), merging what
\* overlaps or touches
MergeInterval(cov, a, b) ==
    IF a >= b THEN cov
    ELSE LET touch == Touching(cov, a, b)
             lo == CHOOSE x \in {a} \cup { cov[i][1] : i \in touch } :
                      \A y \in {a} \cup { cov[i][1] : i \in touch } : x <= y
             hi == CHOOSE x \in {b} \cup { cov[i][2] : i \in touch } :
                      \A y \in {b} \cup { cov[i][2] : i \in touch } : x >= y
         IN  SortByStart({ cov[i] : i \in (1..Len(cov)) \ touch } \cup { <<lo, hi>> })

\* the set-difference of [s, e) against cov: the missing sub-intervals,
\* cut at the interval ends that fall inside (s, e)
Gaps(cov, s, e) ==
    LET cuts == {s, e} \cup { p \in { cov[i][1] : i \in 1..Len(cov) }
                                    \cup { cov[i][2] : i \in 1..Len(cov) } : s < p /\ p < e }
        segs == { <<p, q>> \in cuts \X cuts :
                    p < q /\ ~\E x \in cuts : p < x /\ x < q }
    IN  IF s >= e THEN {}
        ELSE { g \in segs : ~\E i \in 1..Len(cov) : cov[i][1] <= g[1] /\ g[2] <= cov[i][2] }

\* query on the cache when nothing has to be fetched: an invalid or empty
\* range, or a range that CoveredIntervals holds
CacheServe(t) ==
    /\ \E r \in CacheRanges :
        /\ Gaps(covered, r[1], r[2]) = {}
        /\ start' = [start EXCEPT ![t] = r[1]]
        /\ end' = [end EXCEPT ![t] = r[2]]
        /\ result' = [result EXCEPT ![t] =
              IF r[1] > r[2] THEN Err(StartGreaterError)
              ELSE IF r[1] = r[2] THEN Ok(<<>>)
              ELSE Ok(Resample(store, r[1], r[2], Granularity(r[2] - r[1])))]
    /\ pc' = [pc EXCEPT ![t] = "done"]
    /\ remote_data' = [remote_data EXCEPT ![t] = Err("")]
    /\ UNCHANGED <<client, granularity, returned_data_map, calls, prior, store, covered>>

\* query on the cache when part of the range is missing: one fetch, then
\* merge, mark covered and resample, as one critical section
CacheFetch(t) ==
    /\ calls < MaxFetches
    /\ \E r \in CacheRanges : \E remote \in CacheOutcomes :
        /\ Gaps(covered, r[1], r[2]) # {}
        /\ start' = [start EXCEPT ![t] = r[1]]
        /\ end' = [end EXCEPT ![t] = r[2]]
        /\ remote_data' = [remote_data EXCEPT ![t] = remote]
        /\ IF ~remote.ok \/ Len(remote.val) = 0
           THEN /\ UNCHANGED <<store, covered>>
                /\ result' = [result EXCEPT ![t] =
                      IF ~remote.ok THEN Err(remote.err) ELSE Err(EmptyListError)]
           ELSE /\ store' = InsertAll(store, remote.val, 1)
                /\ covered' = MergeInterval(covered, remote.val[1].dt,
                                            remote.val[Len(remote.val)].dt)
                /\ result' = [result EXCEPT ![t] =
                      IF Gaps(covered', r[1], r[2]) # {} THEN Err(RangeSmallerError)
                      ELSE Ok(Resample(store', r[1], r[2], Granularity(r[2] - r[1])))]
    /\ calls' = calls + 1
    /\ pc' = [pc EXCEPT ![t] = "done"]
    /\ UNCHANGED <<client, granularity, returned_data_map, prior>>

CacheNext == \E t \in Tasks : CacheServe(t) \/ CacheFetch(t)

SpecCache == Init /\ [][CacheNext]_vars

TypeOK ==
    /\ pc \in [Tasks -> {"idle", "fetching", "done"}]
    /\ calls \in 0..(IF MaxCalls > MaxFetches THEN MaxCalls ELSE MaxFetches)
    /\ \A t \in Tasks : granularity[t] \in {0, MINUTE, FIVE_MINUTES, ONE_HOUR}

(* ---------------- properties ---------------- *)

\* caller t enters query in this step
Enters(t) == pc[t] # "fetching" /\ pc'[t] = "fetching"

\* caller t's query returns in this step
Returns(t) == pc[t] = "fetching" /\ pc'[t] = "done"

\* C1: a query whose range lies inside a span already fetched by an earlier
\* successful query performs no remote fetch (so query(T, T+25h),
\* query(T, T+3h), query(T, T+1h) fetch once in total).
C1_NoFetchInsideServedSpan ==
    [][\A t \in Tasks :
          (Enters(t) /\ start'[t] < end'[t] /\ HoldersOf(start'[t], end'[t]) # {})
              => calls' = calls]_vars

\* C2: after a first successful query(start, end), every later query with the
\* same (start, end) returns the same vector and triggers no further remote
\* fetch.
C2_RepeatIsMemoized ==
    [][\A t \in Tasks :
          /\ (Enters(t) /\ PriorAnswer(start'[t], end'[t]).ok) => calls' = calls
          /\ (Returns(t) /\ prior[t].ok) => result'[t] = prior[t]]_vars

\* C3: at most one remote fetch is outstanding at any moment for queries whose
\* ranges are the same or overlap.
C3_OneOutstandingFetch ==
    \A t, u \in Tasks :
        (t # u /\ pc[t] = "fetching" /\ pc[u] = "fetching")
            => ~(start[t] < end[u] /\ start[u] < end[t])

\* a caller whose query returned a non-empty vector of values
Answered(t) == pc[t] = "done" /\ result[t].ok /\ start[t] < end[t]

\* C4: the granularity is a function of span = end - start alone, with
\* half-open thresholds: span < 7200 gives 60, 7200 <= span < 86400 gives 300,
\* span >= 86400 gives 3600.
C4_GranularityThresholds ==
    \A t \in Tasks :
        Answered(t) =>
            LET span == end[t] - start[t]
            IN  /\ span < 7200 => granularity[t] = 60
                /\ (7200 <= span /\ span < 86400) => granularity[t] = 300
                /\ span >= 86400 => granularity[t] = 3600

\* C4 witness: the two boundary spans, exactly 2 hours at 5 minutes and
\* exactly 1 day at 1 hour, have been answered
C4_Witness ==
    \E t, u \in Tasks :
        /\ Answered(t) /\ end[t] - start[t] = 7200 /\ granularity[t] = 300
        /\ Answered(u) /\ end[u] - start[u] = 86400 /\ granularity[u] = 3600

\* the granularity the span of caller t's query selects
SpanGranularity(t) ==
    IF end[t] - start[t] < 7200 THEN 60
    ELSE IF end[t] - start[t] < 86400 THEN 300 ELSE 3600

\* C5: a successful query with start < end returns ceil((end - start) / g)
\* values, span / g when g divides the span; 25 h, 3 h and 1 h spans give 25,
\* 36 and 60 values; the last slot start + n * g is the first one not before
\* end, and the first slot is start + g.
C5_SampleCount ==
    \A t \in Tasks :
        Answered(t) =>
            LET span == end[t] - start[t]
                g == SpanGranularity(t)
                n == Len(result[t].val)
            IN  /\ n = (span + g - 1) \div g
                /\ span % g = 0 => n = span \div g
                /\ span = 90000 => n = 25
                /\ span = 10800 => n = 36
                /\ span = 3600 => n = 60
                /\ start[t] + (n - 1) * g < end[t]
                /\ start[t] + n * g >= end[t]

\* C5 witness: a 25 hour span answered with 25 values and a span that its
\* granularity does not divide answered with the rounded-up count
C5_Witness ==
    \E t, u \in Tasks :
        /\ Answered(t) /\ end[t] - start[t] = 90000 /\ Len(result[t].val) = 25
        /\ Answered(u) /\ (end[u] - start[u]) % SpanGranularity(u) # 0
        /\ Len(result[u].val) = (end[u] - start[u]) \div SpanGranularity(u) + 1

\* the observations of caller t's payload stamped at or before ts (inclusive)
\* or strictly before ts
ObsUpTo(t, ts, inclusive) ==
    { j \in 1..Len(remote_data[t].val) :
        IF inclusive THEN remote_data[t].val[j].dt <= ts
        ELSE remote_data[t].val[j].dt < ts }

\* the latest of a non-empty set of observations of caller t's payload: the
\* greatest timestamp, and of equal timestamps the one delivered last
Latest(t, obs) ==
    CHOOSE j \in obs :
        \A i \in obs :
            \/ remote_data[t].val[i].dt < remote_data[t].val[j].dt
            \/ (remote_data[t].val[i].dt = remote_data[t].val[j].dt /\ i <= j)

\* the value of slot k of caller t's answer is that of the latest observation
\* at or before (inclusive) or strictly before the slot timestamp
\* start + k * g, None if there is none
SlotHoldsLatest(t, k, inclusive) ==
    LET obs == ObsUpTo(t, start[t] + k * SpanGranularity(t), inclusive)
    IN  IF obs = {} THEN result[t].val[k] = None
        ELSE result[t].val[k] = Some(remote_data[t].val[Latest(t, obs)].temp)

\* C6 as stated: for every slot timestamp ts = start + k * g the value is the
\* temperature of the latest observation with timestamp <= ts (an observation
\* stamped exactly ts is used for slot ts), or None if there is none.
C6_LatestAtOrBefore ==
    \A t \in Tasks :
        Answered(t) => \A k \in 1..Len(result[t].val) : SlotHoldsLatest(t, k, TRUE)

\* C6 as amended: for every slot timestamp ts = start + k * g the value is the
\* temperature of the latest observation with timestamp strictly below ts (an
\* observation stamped exactly ts is first used for the slot after ts), or
\* None if there is none.
C6_LatestStrictlyBefore ==
    \A t \in Tasks :
        Answered(t) => \A k \in 1..Len(result[t].val) : SlotHoldsLatest(t, k, FALSE)

\* C6 witness: an answered query one of whose slots falls exactly on an
\* observation later than the first one, and holds the previous value
C6_Witness ==
    \E t \in Tasks :
        /\ Answered(t)
        /\ \E k \in 1..Len(result[t].val) : \E j \in 2..Len(remote_data[t].val) :
            /\ remote_data[t].val[j].dt = start[t] + k * SpanGranularity(t)
            /\ result[t].val[k] = Some(remote_data[t].val[j - 1].temp)
            /\ result[t].val[k] # Some(remote_data[t].val[j].temp)

\* caller t asked for [t0, t0 + 25h) and got a payload of samples at 3 hour
\* spacing v0 at t0, v1 # v0 at t0 + 3h, ... that reaches beyond t0 + 25h
C7_Case(t) ==
    /\ pc[t] = "done"
    /\ end[t] = start[t] + 90000
    /\ remote_data[t].ok
    /\ Len(remote_data[t].val) >= 2
    /\ \A j \in 1..Len(remote_data[t].val) :
          remote_data[t].val[j].dt = start[t] + (j - 1) * 10800
    /\ remote_data[t].val[Len(remote_data[t].val)].dt > end[t]
    /\ remote_data[t].val[2].temp # remote_data[t].val[1].temp

\* C7: with observations at 3 hour spacing v0 at t0, v1 # v0 at t0 + 3h, ...,
\* query(t0, t0 + 25h) yields 25 values whose first 3 are all v0.
C7_StepHold ==
    \A t \in Tasks :
        C7_Case(t) =>
            /\ result[t].ok
            /\ Len(result[t].val) = 25
            /\ \A k \in 1..3 : result[t].val[k] = Some(remote_data[t].val[1].temp)

\* C7 witness: the 25 hour query was answered from such a payload, and its
\* fourth value is already v1
C7_Witness ==
    \E t \in Tasks :
        /\ C7_Case(t)
        /\ result[t].ok
        /\ result[t].val[4] = Some(remote_data[t].val[2].temp)

\* C8: query(start, end) with start > end fails with the invalid-range error
\* and triggers no remote fetch, whatever the cache and the provider do.
C8_InvalidRangeNoFetch ==
    \A t \in Tasks :
        start[t] > end[t] =>
            /\ pc[t] # "fetching"
            /\ pc[t] = "done" => result[t] = Err(StartGreaterError)

\* C9: query(T, T) returns an empty vector, with no error and no remote
\* fetch, whatever the cache and the provider do.
C9_EmptyRangeNoFetch ==
    \A t \in Tasks :
        (pc[t] # "idle" /\ start[t] = end[t]) =>
            /\ pc[t] # "fetching"
            /\ pc[t] = "done" => result[t] = Ok(<<>>)

\* C10: when the remote fetch of a query fails, the query returns that very
\* failure, the client is what it was before the query, and a later query
\* for the same range issues a remote fetch again.
C10_FailurePropagatesAndRetries ==
    /\ [][\A t \in Tasks :
            (Returns(t) /\ ~remote_data'[t].ok)
                => /\ result'[t] = Err(remote_data'[t].err)
                   /\ result'[t].err \in {SendError, JsonError}
                   /\ client' = client]_vars
    /\ [][\A t \in Tasks : \A u \in Tasks :
            (/\ pc[u] = "done" /\ ~remote_data[u].ok
             /\ Enters(t) /\ start'[t] = start[u] /\ end'[t] = end[u])
                => calls' = calls + 1]_vars

\* C10 witness: a query failed with the provider's failure, and a second
\* remote fetch for the same range has been issued and answered
C10_Witness ==
    \E t, u \in Tasks :
        /\ t # u
        /\ pc[t] = "done" /\ ~remote_data[t].ok /\ result[t] = Err(JsonError)
        /\ start[t] < end[t]
        /\ start[u] = start[t] /\ end[u] = end[t]
        /\ Answered(u)
        /\ calls = 2

\* caller t's query has returned after a successful remote call with a
\* non-empty list, for a range with start < end
Delivered(t) ==
    /\ pc[t] = "done" /\ remote_data[t].ok /\ Len(remote_data[t].val) > 0
    /\ start[t] < end[t]

\* timestamps of the first and of the last observation of caller t's payload
FirstDt(t) == remote_data[t].val[1].dt
LastDt(t) == remote_data[t].val[Len(remote_data[t].val)].dt

\* C11: when a slot timestamp of a query precedes the earliest observation
\* held, that slot's value is None and the query still succeeds: missing
\* leading data never turns the whole query into an error.
C11_LeadingGapIsNone ==
    \A t \in Tasks :
        (/\ Delivered(t)
         /\ start[t] + SpanGranularity(t) < FirstDt(t)
         /\ FirstDt(t) <= end[t] /\ end[t] < LastDt(t))
            => /\ result[t].ok
               /\ \A k \in 1..Len(result[t].val) :
                     start[t] + k * SpanGranularity(t) < FirstDt(t)
                         => result[t].val[k] = None

\* C12: when the provider's data does not cover [start, end) the query with
\* start < end fails with the range error, and when the observations cover
\* it (first timestamp <= start and end <= last timestamp) it does not.
C12_RangeErrorIffNotCovered ==
    \A t \in Tasks :
        Delivered(t) =>
            LET covers == FirstDt(t) <= start[t] /\ end[t] <= LastDt(t)
            IN  /\ ~covers => result[t] = Err(RangeSmallerError)
                /\ covers => result[t] # Err(RangeSmallerError)

\* C13: when the provider returns an empty series the query returns the
\* empty-payload error, the client is what it was before, and a later query
\* for the same range fetches again.
C13_EmptyPayloadIsFailure ==
    /\ [][\A t \in Tasks :
            (Returns(t) /\ remote_data'[t] = Ok(<<>>))
                => /\ result'[t] = Err(EmptyListError)
                   /\ client' = client]_vars
    /\ [][\A t \in Tasks : \A u \in Tasks :
            (/\ pc[u] = "done" /\ remote_data[u] = Ok(<<>>)
             /\ Enters(t) /\ start'[t] = start[u] /\ end'[t] = end[u])
                => calls' = calls + 1]_vars

\* C13 witness: a query got an empty series and failed with the empty-payload
\* error, and a second fetch for the same range has been made and answered
C13_Witness ==
    \E t, u \in Tasks :
        /\ t # u
        /\ pc[t] = "done" /\ remote_data[t] = Ok(<<>>)
        /\ result[t] = Err(EmptyListError)
        /\ start[t] < end[t]
        /\ start[u] = start[t] /\ end[u] = end[t]
        /\ Answered(u)
        /\ calls = 2

\* the index at which caller t's payload delivers timestamp ts for the last time
LastDelivery(t, ts) ==
    CHOOSE j \in 1..Len(remote_data[t].val) :
        /\ remote_data[t].val[j].dt = ts
        /\ \A i \in 1..Len(remote_data[t].val) :
              remote_data[t].val[i].dt = ts => i <= j

C16_DecisionOrder ==
    \A t \in Tasks :
        pc[t] = "done" =>
            IF ~remote_data[t].ok
                THEN /\ result[t] = Err(remote_data[t].err)
                     /\ result[t].err \in {SendError, JsonError}
            ELSE IF Len(remote_data[t].val) = 0 THEN result[t] = Err(EmptyListError)
            ELSE IF start[t] > end[t] THEN result[t] = Err(StartGreaterError)
            ELSE IF start[t] = end[t] THEN result[t] = Ok(<<>>)
            ELSE result[t].ok \/ result[t] = Err(RangeSmallerError)

\* C16 witness: an inverted range answered with the provider's failure, and
\* an empty range answered with the empty-payload error
C16_Witness ==
    \E t, u \in Tasks :
        /\ pc[t] = "done" /\ start[t] > end[t] /\ result[t] = Err(SendError)
        /\ pc[u] = "done" /\ start[u] = end[u] /\ result[u] = Err(EmptyListError)

Inside(x, cov) == \E i \in 1..Len(cov) : cov[i][1] <= x[1] /\ x[2] <= cov[i][2]

\* C14: CoveredIntervals is a minimal set of half-open intervals sorted by
\* start in which no two intervals overlap or are adjacent; it changes only
\* after a successful fetch, and only by covering more: re-fetching a span
\* that is already covered adds no entry.
C14_CoveredIntervalsMinimal ==
    /\ [](/\ \A i \in 1..Len(covered) : covered[i][1] < covered[i][2]
          /\ \A i \in 1..(Len(covered) - 1) : covered[i][2] < covered[i + 1][1])
    /\ [][covered' # covered =>
            /\ calls' = calls + 1
            /\ \E t \in Tasks : /\ remote_data'[t].ok /\ Len(remote_data'[t].val) > 1
                                /\ result'[t].err \notin {SendError, EmptyListError}
                                /\ Inside(<<remote_data'[t].val[1].dt,
                                            remote_data'[t].val[Len(remote_data'[t].val)].dt>>,
                                          covered')
            /\ \A i \in 1..Len(covered) : Inside(covered[i], covered')
            /\ \E j \in 1..Len(covered') : ~Inside(covered'[j], covered)]_vars

\* C14 witness: two fetches have brought the same span, and it is covered by
\* one entry of the length of that span
C14_Witness ==
    /\ calls = 2
    /\ \E t, u \in Tasks :
         /\ t # u /\ remote_data[t] = remote_data[u]
         /\ remote_data[t].ok /\ Len(remote_data[t].val) > 1
    /\ Len(covered) = 1
    /\ covered[1][2] - covered[1][1] = 2 * THREE_HOURS

====
